---- MODULE Spec2Model ----
(***************************************************************************)
(* EventCommand (mdp/event_command.py): a per-environment timed event flag. *)
(*                                                                         *)
(* Time is counted in ticks of 1/TicksPerSecond seconds, so that the       *)
(* float comparisons of the source (elapsed <= event_during_time,          *)
(* current_time >= 2.0) become exact integer comparisons.  Rounding of     *)
(* float32 sums is not modelled.                                           *)
(***************************************************************************)
EXTENDS Integers, FiniteSets

\* ---------------------------------------------------------------- bounds
NumEnvs == 2
TicksPerSecond == 2
MaxStepDt == 2
MaxPhysicsDt == 1
MaxEpisodeLength == 2
TimerDepth == 3
MaxCommandWidth == 4
MaxCommand == 2
MaxScale == 2
MaxVel == 1

\* ------------------------------------------------------------- constants
\* event_command.py:178  event_during_time: float = 1.0
event_during_time == 1 * TicksPerSecond
\* event_command.py:85   current_time[env_ids] >= 2.0
WarmUpTime == 2 * TicksPerSecond
\* event_command.py:82   episode_length_buf * physics_dt * 4
SubSteps == 4

Envs == 0 .. (NumEnvs - 1)

VARIABLES
    event_command,   \* (num_envs, 2) tensor: event_command[i] = <<active, elapsed>>
    time_elapsed,    \* (num_envs) tensor: the internal timer
    step_dt,         \* self._env.step_dt, fixed for the life of the environment
    physics_dt,      \* self.env.physics_dt, fixed for the life of the environment
    last_call,       \* the last method called and the ids it was given (kept under Spec)
    probe,           \* the environment the counters below follow
    since_trigger,   \* updates of probe since a resample activated it (-1: none, or reset since)
    since_resample,  \* updates since the last resample of probe
    active_run,      \* consecutive updates at whose end probe was active
    twin,            \* the tensors of a second generator, driven alongside under SpecTwin
    term_command,    \* env.command_manager.get_command(command_name): one row per environment
    root_link_lin_vel_b,  \* asset.data.root_link_lin_vel_b: <<x, y, z>> per environment
    obs_call         \* the last observation function called, its arguments and its result

vars == <<event_command, time_elapsed, step_dt, physics_dt, last_call,
          probe, since_trigger, since_resample, active_run, twin,
          term_command, root_link_lin_vel_b, obs_call>>

ghost == <<since_trigger, since_resample, active_run>>

observed == <<term_command, root_link_lin_vel_b, obs_call>>

\* command property: returns the tensor itself; command[i][1] is column 0 (the
\* flag) and command[i][2] is column 1 (the elapsed value) of row i
command == event_command

\* ------------------------------------------------------------ operations

\* variant: the factor 4 left out
current_time_without_substeps(episode_length_buf) ==
    [i \in DOMAIN episode_length_buf |-> episode_length_buf[i] * physics_dt]

\* current_time = self.env.episode_length_buf * self.env.physics_dt * 4
current_time(episode_length_buf) ==
    [i \in DOMAIN episode_length_buf |-> episode_length_buf[i] * physics_dt * SubSteps]

\* variant: the episode time itself is written where the condition holds
TriggerRawTime(t) == IF t >= WarmUpTime THEN t ELSE 0

\* variant: the warm-up comparison made strict
TriggerStrict(t) == IF t > WarmUpTime THEN 1 ELSE 0

\* torch.where(current_time[env_ids] >= 2.0, ones_like(...), zeros_like(...))
Trigger(t) == IF t >= WarmUpTime THEN 1 ELSE 0

\* variant: the timer is copied into column 1 before it is zeroed
resample_command_copying_timer(ec, te, env_ids, episode_length_buf) ==
    [event_command |->
        [i \in Envs |-> IF i \in env_ids
                        THEN <<IF current_time(episode_length_buf)[i] >= WarmUpTime
                               THEN 1 ELSE 0, te[i]>>
                        ELSE ec[i]],
     time_elapsed |-> [i \in Envs |-> IF i \in env_ids THEN 0 ELSE te[i]]]

\* variant: the timer of every environment is zeroed, selected or not
resample_command_zeroing_all_timers(ec, te, env_ids, episode_length_buf) ==
    [event_command |->
        [i \in Envs |-> IF i \in env_ids
                        THEN <<IF current_time(episode_length_buf)[i] >= WarmUpTime
                               THEN 1 ELSE 0, ec[i][2]>>
                        ELSE ec[i]],
     time_elapsed |-> [i \in Envs |-> 0]]

\* _resample_command(env_ids): column 0 of the selected rows is overwritten,
\* the timer of the selected rows is zeroed, column 1 is not written.
resample_command(ec, te, env_ids, episode_length_buf) ==
    [event_command |->
        [i \in Envs |-> IF i \in env_ids
                        THEN <<Trigger(current_time(episode_length_buf)[i]), ec[i][2]>>
                        ELSE ec[i]],
     time_elapsed |-> [i \in Envs |-> IF i \in env_ids THEN 0 ELSE te[i]]]

\* variant: the step is subtracted
AccumulateDown(a, t) == IF a = 1 THEN t - step_dt ELSE 0

\* torch.where(event_command[:,0] == 1.0, time_elapsed + step_dt, 0.0)
Accumulate(a, t) == IF a = 1 THEN t + step_dt ELSE 0

\* variant: the duration comparison made strict
StillActiveStrict(a, t) == IF a = 1 /\ t < event_during_time THEN 1 ELSE 0

\* variant: the duration comparison dropped
StillActiveNoTimeout(a, t) == IF a = 1 THEN 1 ELSE 0

\* logical_and(event_command[:,0] == 1.0, time_elapsed <= event_during_time).float()
StillActive(a, t) == IF a = 1 /\ t <= event_during_time THEN 1 ELSE 0

\* variant: only the timer of the reset environments is zeroed
ResetOverrideTimerOnly(ec, te, reset_env_ids) ==
    [event_command |-> ec,
     time_elapsed |-> [i \in Envs |-> IF i \in reset_env_ids THEN 0 ELSE te[i]]]

\* the reset override: time_elapsed[reset_env_ids] = 0.0, event_command[reset_env_ids] = 0.0
ResetOverride(ec, te, reset_env_ids) ==
    [event_command |-> [i \in Envs |-> IF i \in reset_env_ids THEN <<0, 0>> ELSE ec[i]],
     time_elapsed |-> [i \in Envs |-> IF i \in reset_env_ids THEN 0 ELSE te[i]]]

\* variant: the timer is not copied into column 1
update_command_without_copy(ec, te, reset_env_ids) ==
    LET t1 == [i \in Envs |-> IF ec[i][1] = 1 THEN te[i] + step_dt ELSE 0]
        ec1 == [i \in Envs |->
                  <<IF ec[i][1] = 1 /\ t1[i] <= event_during_time THEN 1 ELSE 0, ec[i][2]>>]
    IN  IF reset_env_ids # {}
        THEN [event_command |-> [i \in Envs |-> IF i \in reset_env_ids
                                                 THEN <<0, 0>> ELSE ec1[i]],
              time_elapsed |-> [i \in Envs |-> IF i \in reset_env_ids THEN 0 ELSE t1[i]]]
        ELSE [event_command |-> ec1, time_elapsed |-> t1]

\* variant: a non-empty reset set zeroes every row
update_command_resetting_all(ec, te, reset_env_ids) ==
    LET t1 == [i \in Envs |-> IF ec[i][1] = 1 THEN te[i] + step_dt ELSE 0]
        ec1 == [i \in Envs |->
                  <<IF ec[i][1] = 1 /\ t1[i] <= event_during_time THEN 1 ELSE 0, t1[i]>>]
    IN  IF reset_env_ids # {}
        THEN [event_command |-> [i \in Envs |-> <<0, 0>>],
              time_elapsed |-> [i \in Envs |-> 0]]
        ELSE [event_command |-> ec1, time_elapsed |-> t1]

\* _update_command(): accumulate, deactivate, copy the timer into column 1,
\* then override the rows of the environments flagged in reset_buf.
update_command(ec, te, reset_env_ids) ==
    LET t1 == [i \in Envs |-> Accumulate(ec[i][1], te[i])]
        ec1 == [i \in Envs |-> <<StillActive(ec[i][1], t1[i]), t1[i]>>]
    IN  IF reset_env_ids # {}
        THEN ResetOverride(ec1, t1, reset_env_ids)
        ELSE [event_command |-> ec1, time_elapsed |-> t1]

\* variant: the scaling is applied to the stored tensor itself (no clone)
generated_scaled_commands_in_place(stored, scale) ==
    LET scaled == [i \in DOMAIN stored |->
                     [k \in DOMAIN stored[i] |->
                         IF k <= 3 THEN stored[i][k] * scale[k] ELSE stored[i][k]]]
    IN  [term_command |-> scaled, value |-> scaled]

\* generated_scaled_commands(env, command_name, scale):
\*   scaled_command = get_command(command_name).clone()
\*   scaled_command[:, :3] *= torch.tensor(scale)
\* The result holds what the call leaves in the command manager and what it returns.
generated_scaled_commands(stored, scale) ==
    LET clone == [i \in DOMAIN stored |-> [k \in DOMAIN stored[i] |-> stored[i][k]]]
        scaled_command == [i \in DOMAIN clone |->
                             [k \in DOMAIN clone[i] |->
                                 IF k \in 1 .. 3 THEN clone[i][k] * scale[k] ELSE clone[i][k]]]
    IN  [term_command |-> stored, value |-> scaled_command]

\* base_lin_vel_link: return asset.data.root_link_lin_vel_b
base_lin_vel_link(vel) == vel

\* base_lin_vel_x_link: root_link_lin_vel_b[:, 0].unsqueeze(-1)
base_lin_vel_x_link(vel) == [i \in DOMAIN vel |-> <<vel[i][1]>>]

\* base_lin_vel_y_link: root_link_lin_vel_b[:, 1].unsqueeze(-1)
base_lin_vel_y_link(vel) == [i \in DOMAIN vel |-> <<vel[i][2]>>]

\* base_lin_vel_z_link: root_link_lin_vel_b[:, 1].unsqueeze(-1)
\* (column index 1 of the tensor, which is component 2 of the tuple here)
base_lin_vel_z_link(vel) == [i \in DOMAIN vel |-> <<vel[i][2]>>]

\* ----------------------------------------------------------------- state

\* variant: the command tensor allocated with torch.ones
InitTensorsOnes ==
    /\ event_command = [i \in Envs |-> <<1, 1>>]
    /\ time_elapsed = [i \in Envs |-> 0]

\* __init__: both tensors are torch.zeros
InitTensors ==
    /\ event_command = [i \in Envs |-> <<0, 0>>]
    /\ time_elapsed = [i \in Envs |-> 0]

InitEnv ==
    /\ step_dt \in 1 .. MaxStepDt
    /\ physics_dt \in 1 .. MaxPhysicsDt

\* the observation functions are not exercised by the command generator's
\* specifications: their inputs rest at zero there
InitObservedIdle ==
    /\ term_command = [i \in Envs |-> <<0, 0, 0>>]
    /\ root_link_lin_vel_b = [i \in Envs |-> <<0, 0, 0>>]
    /\ obs_call = [func |-> "none"]

InitGhost ==
    /\ since_trigger = -1
    /\ since_resample = 0
    /\ active_run = 0
    /\ twin = [event_command |-> [i \in Envs |-> <<0, 0>>],
               time_elapsed |-> [i \in Envs |-> 0]]

Init ==
    /\ InitTensors
    /\ InitEnv
    /\ last_call = [op |-> "init", env_ids |-> {}]
    /\ probe = 0
    /\ InitGhost
    /\ InitObservedIdle

\* a call of _resample_command(env_ids) with the episode counters the
\* environment holds at that moment
ResampleCall(env_ids, episode_length_buf) ==
    LET r == resample_command(event_command, time_elapsed, env_ids, episode_length_buf)
    IN  /\ event_command' = r.event_command
        /\ time_elapsed' = r.time_elapsed
        /\ UNCHANGED <<step_dt, physics_dt, probe, twin, observed>>

\* a call of _update_command() with the reset_buf the environment holds
UpdateCall(reset_env_ids) ==
    LET r == update_command(event_command, time_elapsed, reset_env_ids)
    IN  /\ event_command' = r.event_command
        /\ time_elapsed' = r.time_elapsed
        /\ UNCHANGED <<step_dt, physics_dt, probe, twin, observed>>

Resample ==
    \E env_ids \in SUBSET Envs :
        \E episode_length_buf \in [env_ids -> 0 .. MaxEpisodeLength] :
            /\ ResampleCall(env_ids, episode_length_buf)
            /\ last_call' = [op |-> "resample", env_ids |-> env_ids]
            /\ UNCHANGED ghost

Update ==
    \E reset_env_ids \in SUBSET Envs :
        /\ UpdateCall(reset_env_ids)
        /\ last_call' = [op |-> "update", env_ids |-> reset_env_ids]
        /\ UNCHANGED ghost

Next == Resample \/ Update

Spec == Init /\ [][Next]_vars

\* ------------------------------------------- counters that follow one environment

InitProbe ==
    /\ InitTensors
    /\ InitEnv
    /\ last_call = [op |-> "init", env_ids |-> {}]
    /\ probe \in Envs
    /\ InitGhost
    /\ InitObservedIdle

\* the counters saturate here; no step count of interest exceeds event_during_time + 1
CounterCap == event_during_time + 2

Bump(n) == IF n < CounterCap THEN n + 1 ELSE n

\* since_trigger: 0 when a resample leaves probe active, then the number of
\* updates that did not reset probe; -1 otherwise.
ResampleTrigger ==
    \E env_ids \in SUBSET Envs :
        \E episode_length_buf \in [env_ids -> 0 .. MaxEpisodeLength] :
            /\ ResampleCall(env_ids, episode_length_buf)
            /\ since_trigger' = IF probe \in env_ids
                                THEN (IF event_command'[probe][1] = 1 THEN 0 ELSE -1)
                                ELSE since_trigger
            /\ UNCHANGED <<last_call, since_resample, active_run>>

UpdateTrigger ==
    \E reset_env_ids \in SUBSET Envs :
        /\ UpdateCall(reset_env_ids)
        /\ since_trigger' = IF probe \in reset_env_ids \/ since_trigger < 0
                            THEN -1
                            ELSE Bump(since_trigger)
        /\ UNCHANGED <<last_call, since_resample, active_run>>

NextTrigger == ResampleTrigger \/ UpdateTrigger

SpecTrigger == InitProbe /\ [][NextTrigger]_vars

\* active_run: consecutive updates at whose end probe is active.
\* since_resample: the same count, restarted by every resample of probe.
ResampleRun ==
    \E env_ids \in SUBSET Envs :
        \E episode_length_buf \in [env_ids -> 0 .. MaxEpisodeLength] :
            /\ ResampleCall(env_ids, episode_length_buf)
            /\ since_resample' = IF probe \in env_ids THEN 0 ELSE since_resample
            /\ UNCHANGED <<last_call, since_trigger, active_run>>

UpdateRun ==
    \E reset_env_ids \in SUBSET Envs :
        /\ UpdateCall(reset_env_ids)
        /\ active_run' = IF event_command'[probe][1] = 1 THEN Bump(active_run) ELSE 0
        /\ since_resample' = IF event_command'[probe][1] = 1 THEN Bump(since_resample) ELSE 0
        /\ UNCHANGED <<last_call, since_trigger>>

NextRun == ResampleRun \/ UpdateRun

SpecRun == InitProbe /\ [][NextRun]_vars

\* ------------------------------------- the calls as one environment sees them

\* last_call keeps, of each call, what concerns probe: whether probe was among
\* the ids, and for a resample the episode counter probe had.
ResampleSeen ==
    \E env_ids \in SUBSET Envs :
        \E episode_length_buf \in [env_ids -> 0 .. MaxEpisodeLength] :
            /\ ResampleCall(env_ids, episode_length_buf)
            /\ last_call' = [op |-> "resample",
                             env_ids |-> env_ids \cap {probe},
                             episode_length_buf |->
                                 [j \in env_ids \cap {probe} |-> episode_length_buf[j]]]
            /\ UNCHANGED ghost

UpdateSeen ==
    \E reset_env_ids \in SUBSET Envs :
        /\ UpdateCall(reset_env_ids)
        /\ last_call' = [op |-> "update", env_ids |-> reset_env_ids \cap {probe}]
        /\ UNCHANGED ghost

NextSeen == ResampleSeen \/ UpdateSeen

SpecSeen == InitProbe /\ [][NextSeen]_vars

\* ------------------------------------------------- two generators side by side

\* The second generator receives, for probe, the inputs the first receives;
\* its other environments receive different ones: they are resampled (at the
\* longest episode time) exactly when probe is not, and reset exactly when
\* probe is not.
TwinIds(ids) == IF probe \in ids THEN {probe} ELSE Envs \ {probe}

\* the episode counters of the first generator: any value for probe, either
\* end of the range for the others
TwinCounters(env_ids) ==
    {b \in [env_ids -> 0 .. MaxEpisodeLength] :
        \A j \in env_ids \ {probe} : b[j] \in {0, MaxEpisodeLength}}

ResampleTwin ==
    \E env_ids \in SUBSET Envs :
        \E episode_length_buf \in TwinCounters(env_ids) :
            LET r == resample_command(event_command, time_elapsed,
                                      env_ids, episode_length_buf)
                ids2 == TwinIds(env_ids)
                buf2 == [j \in ids2 |-> IF j = probe THEN episode_length_buf[j]
                                        ELSE MaxEpisodeLength]
                r2 == resample_command(twin.event_command, twin.time_elapsed, ids2, buf2)
            IN  /\ event_command' = r.event_command
                /\ time_elapsed' = r.time_elapsed
                /\ twin' = r2
                /\ UNCHANGED <<step_dt, physics_dt, probe, last_call, ghost, observed>>

UpdateTwin ==
    \E reset_env_ids \in SUBSET Envs :
        LET r == update_command(event_command, time_elapsed, reset_env_ids)
            r2 == update_command(twin.event_command, twin.time_elapsed,
                                 TwinIds(reset_env_ids))
        IN  /\ event_command' = r.event_command
            /\ time_elapsed' = r.time_elapsed
            /\ twin' = r2
            /\ UNCHANGED <<step_dt, physics_dt, probe, last_call, ghost, observed>>

NextTwin == ResampleTwin \/ UpdateTwin

SpecTwin == InitProbe /\ [][NextTwin]_vars

\* --------------------------------------------- a step that may be zero

\* as Init, with the environment's step_dt drawn from 0 .. MaxStepDt
InitNonNegativeDt ==
    /\ InitTensors
    /\ step_dt \in 0 .. MaxStepDt
    /\ physics_dt \in 1 .. MaxPhysicsDt
    /\ last_call = [op |-> "init", env_ids |-> {}]
    /\ probe = 0
    /\ InitGhost
    /\ InitObservedIdle

SpecNonNegativeDt == InitNonNegativeDt /\ [][Next]_vars

\* --------------------------------------------- a step of either sign

\* as Init, with the environment's step_dt drawn from -MaxStepDt .. MaxStepDt:
\* neither __init__ nor _update_command looks at the sign of step_dt
InitAnyDt ==
    /\ InitTensors
    /\ step_dt \in (0 - MaxStepDt) .. MaxStepDt
    /\ physics_dt \in 1 .. MaxPhysicsDt
    /\ last_call = [op |-> "init", env_ids |-> {}]
    /\ probe = 0
    /\ InitGhost
    /\ InitObservedIdle

\* _update_command(), explored while no timer has sunk below -TimerDepth
UpdateAnyDt ==
    /\ \A i \in Envs : time_elapsed[i] > 0 - TimerDepth
    /\ Update

NextAnyDt == Resample \/ UpdateAnyDt

SpecAnyDt == InitAnyDt /\ [][NextAnyDt]_vars

\* ---------------------------------------------------------------- claims

\* C1: in every reachable state, for every environment, a row of command()
\* whose active flag is 0.0 has elapsed 0, also at the end of the update that
\* deactivated it by duration.
C1_InactiveHasZeroElapsed ==
    \A i \in Envs : command[i][1] = 0 => command[i][2] = 0

\* C2: an environment that a resample made active and that is then only
\* updated (no reset, no resample) is active after the k-th update while
\* k * dt <= event_during_time, and after the first update with
\* k * dt > event_during_time its command() row is exactly (0.0, 0.0).
C2_ActiveThenZeroRow ==
    (since_trigger >= 0 /\ since_trigger < CounterCap) =>
        /\ since_trigger * step_dt <= event_during_time
              => command[probe][1] = 1
        /\ ( /\ since_trigger * step_dt > event_during_time
             /\ (since_trigger - 1) * step_dt <= event_during_time )
              => command[probe] = <<0, 0>>

\* C3: after an update, every environment in the reset set has command() row
\* (0.0, 0) and timer 0 whatever its state was before; every other environment
\* has evolved by the accumulate/deactivate rule only.
C3_ResetWins ==
    [][ last_call'.op = "update" =>
          \A i \in Envs :
             IF i \in last_call'.env_ids
             THEN command'[i] = <<0, 0>> /\ time_elapsed'[i] = 0
             ELSE LET t == IF command[i][1] = 1 THEN time_elapsed[i] + step_dt ELSE 0
                  IN  /\ time_elapsed'[i] = t
                      /\ command'[i] =
                           <<IF command[i][1] = 1 /\ t <= event_during_time THEN 1 ELSE 0, t>>
      ]_vars

\* C3 witness: an update has reset environment 0 only, while environment 1 went
\* on accumulating.
C3_Witness ==
    /\ last_call = [op |-> "update", env_ids |-> {0}]
    /\ command[0] = <<0, 0>> /\ time_elapsed[0] = 0
    /\ command[1][1] = 1 /\ command[1][2] > step_dt

\* C4: for every environment outside the reset set, the flag after an update is
\* 1 exactly when it was 1 before and timer-before + dt <= event_during_time
\* (non-strict: a timer that reaches event_during_time exactly stays active).
C4_ActiveIff ==
    [][ last_call'.op = "update" =>
          \A i \in Envs \ last_call'.env_ids :
             /\ command'[i][1] \in {0, 1}
             /\ command'[i][1] = 1 <=>
                  (command[i][1] = 1 /\ time_elapsed[i] + step_dt <= event_during_time)
      ]_vars

\* C4 witness: an update has left an environment active with its timer exactly
\* at event_during_time.
C4_Witness ==
    /\ last_call.op = "update"
    /\ \E i \in Envs \ last_call.env_ids :
          command[i] = <<1, event_during_time>> /\ time_elapsed[i] = event_during_time

\* C5: resample(env_ids) sets the flag of every selected environment to 1 if
\* its episode time (episode_length_buf * physics_dt * 4) is >= 2.0 s and to 0
\* otherwise, whatever the flag and elapsed value were.
C5_ResampleTrigger ==
    \A env_ids \in SUBSET Envs :
        \A episode_length_buf \in [env_ids -> 0 .. MaxEpisodeLength] :
            LET r == resample_command(event_command, time_elapsed,
                                      env_ids, episode_length_buf)
            IN  \A i \in env_ids :
                   r.event_command[i][1] =
                      IF episode_length_buf[i] * physics_dt * 4 >= 2 * TicksPerSecond
                      THEN 1 ELSE 0

\* C5 witness: one resample has activated environment 0 and deactivated
\* environment 1, which was in the middle of an event.
C5_Witness ==
    /\ last_call = [op |-> "resample", env_ids |-> {0, 1}]
    /\ command[0][1] = 1
    /\ command[1][1] = 0 /\ command[1][2] > 0

\* C6: right after resample(env_ids), column 1 of command() is 0 for every
\* selected environment.
C6_ResampleZeroesElapsed ==
    last_call.op = "resample" =>
        \A i \in last_call.env_ids : command[i][2] = 0

\* C7: resample is idempotent: a second resample with the same env_ids and the
\* same episode counters leaves flags, exposed elapsed values and timers as the
\* first left them.
C7_ResampleIdempotent ==
    \A env_ids \in SUBSET Envs :
        \A episode_length_buf \in [env_ids -> 0 .. MaxEpisodeLength] :
            LET r1 == resample_command(event_command, time_elapsed,
                                       env_ids, episode_length_buf)
                r2 == resample_command(r1.event_command, r1.time_elapsed,
                                       env_ids, episode_length_buf)
            IN  r2 = r1

\* C7 witness: a first resample has just activated an environment whose row
\* still shows the elapsed value of the previous event.
C7_Witness ==
    /\ last_call.op = "resample"
    /\ \E i \in last_call.env_ids :
          command[i][1] = 1 /\ command[i][2] > 0 /\ time_elapsed[i] = 0

\* C8: whenever the flag exposed by command() is 1.0, the elapsed value of the
\* same row is between 0 and event_during_time.
C8_ActiveElapsedInRange ==
    \A i \in Envs :
        command[i][1] = 1 => (0 <= command[i][2] /\ command[i][2] <= event_during_time)

\* C9 as claimed: under any interleaving of update and resample calls, no
\* environment is active at the end of more than
\* floor(event_during_time / dt) consecutive updates.
C9_ActiveRunBounded ==
    active_run <= event_during_time \div step_dt

\* C9 amended: counted from the environment's last resample, no environment is
\* active at the end of more than floor(event_during_time / dt) consecutive
\* updates.
C9_ActiveRunSinceResampleBounded ==
    since_resample <= event_during_time \div step_dt

\* C9 witness: the environment has been active for the full
\* floor(event_during_time / dt) updates after a resample.
C9_Witness ==
    /\ command[probe] = <<1, event_during_time>>
    /\ since_resample = event_during_time \div step_dt
    /\ since_resample > 1

\* C10: for every environment outside the reset set that is active before and
\* after an update, column 1 of command() after it is column 1 before it plus dt.
C10_ElapsedStepsByDt ==
    [][ last_call'.op = "update" =>
          \A i \in Envs \ last_call'.env_ids :
             (command[i][1] = 1 /\ command'[i][1] = 1)
                => command'[i][2] = command[i][2] + step_dt
      ]_vars

\* C11: in every reachable state the flag in column 0 of command() is exactly
\* 0.0 or 1.0 for every environment.
C11_FlagIsZeroOrOne ==
    \A i \in Envs : command[i][1] \in {0, 1}

\* C11 witness: after an update one environment holds flag 1 and another flag 0
\* with a non-zero elapsed value beside it.
C11_Witness ==
    /\ last_call.op = "update"
    /\ \E i, j \in Envs :
          command[i][1] = 1 /\ command[j][1] = 0 /\ command[j][2] > 0

\* C12: with a step dt >= 0, in every reachable state both the elapsed value
\* exposed by command() and the internal timer are >= 0 for every environment.
C12_ElapsedNonNegative ==
    \A i \in Envs : command[i][2] >= 0 /\ time_elapsed[i] >= 0

\* C12 witness: with dt = 0 an update has left an active environment at elapsed
\* 0 and timer 0, the lowest value the claim allows.
C12_Witness ==
    /\ last_call.op = "update"
    /\ step_dt = 0
    /\ \E i \in Envs : command[i] = <<1, 0>> /\ time_elapsed[i] = 0

\* C13: environments are independent: two runs that give environment i the same
\* resample/reset membership and the same episode time, and differ in what the
\* other environments hold and receive, leave environment i in the same state
\* (flag, exposed elapsed, timer) after every call.
C13_Independent ==
    /\ twin.event_command[probe] = event_command[probe]
    /\ twin.time_elapsed[probe] = time_elapsed[probe]

\* C13 witness: probe is in the middle of an event in both runs while another
\* environment is active in one run and inactive in the other.
C13_Witness ==
    /\ command[probe][1] = 1 /\ time_elapsed[probe] > 0
    /\ \E j \in Envs \ {probe} :
          /\ command[j][1] = 1 /\ time_elapsed[j] > 0
          /\ twin.event_command[j][1] = 0

\* C14: a precondition violation fails at once and leaves every environment's
\* event state unchanged; here the update with a negative step dt: after it the
\* flags, column 1 and the timers are what they were before it.
C14_NegativeDtRefused ==
    [][ (last_call'.op = "update" /\ step_dt < 0) =>
           (event_command' = event_command /\ time_elapsed' = time_elapsed)
      ]_vars

\* the three steps of _update_command in two other orders: the reset override
\* applied before accumulate and deactivate ...
update_reset_first(ec, te, reset_env_ids) ==
    LET r0 == IF reset_env_ids # {}
              THEN ResetOverride(ec, te, reset_env_ids)
              ELSE [event_command |-> ec, time_elapsed |-> te]
    IN  update_command(r0.event_command, r0.time_elapsed, {})

\* ... and applied between them
update_reset_between(ec, te, reset_env_ids) ==
    LET t1 == [i \in Envs |-> Accumulate(ec[i][1], te[i])]
        r1 == IF reset_env_ids # {}
              THEN ResetOverride(ec, t1, reset_env_ids)
              ELSE [event_command |-> ec, time_elapsed |-> t1]
        t2 == r1.time_elapsed
    IN  [event_command |->
            [i \in Envs |-> <<StillActive(r1.event_command[i][1], t2[i]), t2[i]>>],
         time_elapsed |-> t2]

\* C15 as claimed: for an environment that is reset in the update in which it
\* would otherwise deactivate by duration, applying the reset override before
\* accumulate and deactivate gives a different result than the order
\* accumulate, deactivate, reset override.
C15_OrderObservable ==
    \A i \in Envs :
        (command[i][1] = 1 /\ time_elapsed[i] + step_dt > event_during_time) =>
            update_reset_first(event_command, time_elapsed, {i})
               # update_command(event_command, time_elapsed, {i})

\* C15 amended: from every reachable state and for every reset set, applying the
\* reset override before accumulate and deactivate, or between them, gives the
\* same flags, column 1 and timers as the order accumulate, deactivate, reset
\* override.
C15_ResetPositionUnobservable ==
    \A reset_env_ids \in SUBSET Envs :
        LET r == update_command(event_command, time_elapsed, reset_env_ids)
        IN  /\ update_reset_first(event_command, time_elapsed, reset_env_ids) = r
            /\ update_reset_between(event_command, time_elapsed, reset_env_ids) = r

\* C15 witness: updates have brought an environment to the point where the
\* next update deactivates it by duration.
C15_Witness ==
    /\ last_call.op = "update"
    /\ \E i \in Envs :
          /\ command[i][1] = 1
          /\ time_elapsed[i] > 0
          /\ time_elapsed[i] + step_dt > event_during_time

\* C16: no terminal state: from every reachable state, for every environment,
\* some resample call makes the environment active and some update call makes
\* it inactive.
C16_NoTerminalState ==
    \A i \in Envs :
        /\ \E episode_length_buf \in [{i} -> 0 .. MaxEpisodeLength] :
              resample_command(event_command, time_elapsed, {i}, episode_length_buf)
                 .event_command[i][1] = 1
        /\ \E reset_env_ids \in SUBSET Envs :
              update_command(event_command, time_elapsed, reset_env_ids)
                 .event_command[i][1] = 0

\* C16 witness: an environment has been through a whole cycle: it was
\* activated, timed out in an update and is inactive again.
C16_Witness ==
    /\ last_call.op = "update"
    /\ \E i \in Envs \ last_call.env_ids :
          command[i][1] = 0 /\ time_elapsed[i] > event_during_time

\* C17: right after construction, before any resample or update, every row of
\* command() is (0.0, 0.0) and every timer is 0.
C17_ConstructedInactive ==
    last_call.op = "init" =>
        \A i \in Envs : command[i] = <<0, 0>> /\ time_elapsed[i] = 0

\* C17 witness: the state right after construction, all NumEnvs rows present.
C17_Witness ==
    /\ last_call.op = "init"
    /\ DOMAIN command = Envs /\ DOMAIN time_elapsed = Envs
    /\ \A i \in Envs : command[i][1] = 0

\* the step just taken was a resample that selected probe, with this trigger value
ResampledWithTrigger(v) ==
    /\ last_call'.op = "resample"
    /\ probe \in last_call'.env_ids
    /\ Trigger(current_time(last_call'.episode_length_buf)[probe]) = v

\* the step just taken was an update that reset probe or in which its timer
\* went past event_during_time
UpdatedPastDurationOrReset ==
    /\ last_call'.op = "update"
    /\ \/ probe \in last_call'.env_ids
       \/ time_elapsed[probe] + step_dt > event_during_time

\* C18 as stated: the flag goes from 0 to 1 only in a resample that selects the
\* environment with a true trigger, and from 1 to 0 only in an update in which
\* the timer exceeds event_during_time or the environment is reset.
C18_OnlyListedTransitions ==
    [][/\ (command[probe][1] = 0 /\ command'[probe][1] = 1) => ResampledWithTrigger(1)
       /\ (command[probe][1] = 1 /\ command'[probe][1] = 0) => UpdatedPastDurationOrReset]_vars

\* C18 amended: the flag goes from 0 to 1 only in a resample that selects the
\* environment with a true trigger (never in an update), and from 1 to 0 only
\* in an update in which the timer exceeds event_during_time or the environment
\* is reset, or in a resample that selects the environment with a false trigger.
C18_TransitionsWithResampleOff ==
    [][/\ (command[probe][1] = 0 /\ command'[probe][1] = 1) => ResampledWithTrigger(1)
       /\ (command[probe][1] = 1 /\ command'[probe][1] = 0) =>
              (UpdatedPastDurationOrReset \/ ResampledWithTrigger(0))]_vars

\* C18 witness: probe, active with a running timer, has just been resampled at
\* an episode time below the warm-up time and is now inactive.
C18_Witness ==
    /\ last_call.op = "resample"
    /\ probe \in last_call.env_ids
    /\ Trigger(current_time(last_call.episode_length_buf)[probe]) = 0
    /\ command[probe][1] = 0
    /\ command[probe][2] > 0

\* C19: a resample leaves the row and the timer of every environment outside
\* env_ids as they were; an update leaves every environment outside the reset
\* set with exactly what accumulate/deactivate/copy gave it (the result of the
\* same update with an empty reset set).
C19_OnlySelectedModified ==
    [][/\ last_call'.op = "resample" =>
              \A i \in Envs \ last_call'.env_ids :
                  /\ command'[i] = command[i]
                  /\ time_elapsed'[i] = time_elapsed[i]
       /\ last_call'.op = "update" =>
              \A i \in Envs \ last_call'.env_ids :
                  /\ command'[i] = update_command(event_command, time_elapsed, {}).event_command[i]
                  /\ time_elapsed'[i] = update_command(event_command, time_elapsed, {}).time_elapsed[i]]_vars

\* C19 witness: a resample of some environments has just run while another
\* environment, not selected, is active with a running timer.
C19_Witness ==
    /\ last_call.op = "resample"
    /\ last_call.env_ids # {}
    /\ \E i \in Envs \ last_call.env_ids :
           command[i][1] = 1 /\ command[i][2] > 0 /\ time_elapsed[i] > 0

\* C20: in every state that immediately follows an update, with any reset set,
\* column 1 of command() equals the internal timer for every environment.
C20_ElapsedAgreesAfterUpdate ==
    last_call.op = "update" =>
        \A i \in Envs : command[i][2] = time_elapsed[i]

\* C20 witness: an update that reset some environment has just run, and another
\* environment carries a positive timer whose value column 1 shows.
C20_Witness ==
    /\ last_call.op = "update"
    /\ last_call.env_ids # {}
    /\ \E i \in Envs \ last_call.env_ids :
           time_elapsed[i] > 0 /\ command[i][2] = time_elapsed[i]

\* ------------------------------------------------- the observation functions

\* components a stored command may hold, and factors a scale may hold
CommandValues == {-1, MaxCommand}

ScaleValues == {1, MaxScale}

\* the generator at rest, a fixed environment step
InitGeneratorIdle ==
    /\ InitTensors
    /\ step_dt = 1 /\ physics_dt = 1
    /\ last_call = [op |-> "init", env_ids |-> {}]
    /\ probe = 0
    /\ InitGhost

\* the command manager holds any command of at least three components
InitScaled ==
    /\ InitGeneratorIdle
    /\ \E w \in 3 .. MaxCommandWidth : term_command \in [Envs -> [1 .. w -> CommandValues]]
    /\ root_link_lin_vel_b = [i \in Envs |-> <<0, 0, 0>>]
    /\ obs_call = [func |-> "none"]

GeneratedScaledCommands ==
    \E scale \in [1 .. 3 -> ScaleValues] :
        LET r == generated_scaled_commands(term_command, scale)
        IN  /\ term_command' = r.term_command
            /\ obs_call' = [func |-> "generated_scaled_commands",
                            scale |-> scale, value |-> r.value]
            /\ UNCHANGED <<event_command, time_elapsed, step_dt, physics_dt, last_call,
                           probe, ghost, twin, root_link_lin_vel_b>>

NextScaled == GeneratedScaledCommands

SpecScaled == InitScaled /\ [][NextScaled]_vars

\* C21: a call of generated_scaled_commands leaves the stored command as it
\* was and returns it with components 1..3 multiplied by scale[1..3] and the
\* other components as stored; a call that follows another with the same scale
\* returns the same value (the scaling does not accumulate).
C21_ScaledCopyStoredUnchanged ==
    [][obs_call'.func = "generated_scaled_commands" =>
          /\ term_command' = term_command
          /\ DOMAIN obs_call'.value = Envs
          /\ \A i \in Envs :
                 /\ DOMAIN obs_call'.value[i] = DOMAIN term_command[i]
                 /\ \A k \in DOMAIN term_command[i] :
                        obs_call'.value[i][k] =
                            IF k <= 3 THEN term_command[i][k] * obs_call'.scale[k]
                                      ELSE term_command[i][k]
          /\ (obs_call.func = "generated_scaled_commands"
                  /\ obs_call.scale = obs_call'.scale)
                 => obs_call'.value = obs_call.value]_vars

\* C21 witness: a call with a factor other than 1 has returned, for a command of
\* more than three components, a value that differs from the stored command in
\* a scaled component and equals it in the fourth.
C21_Witness ==
    /\ obs_call.func = "generated_scaled_commands"
    /\ \E i \in Envs :
           /\ 4 \in DOMAIN term_command[i]
           /\ obs_call.value[i][1] # term_command[i][1]
           /\ obs_call.value[i][4] = term_command[i][4]
           /\ obs_call.value[i][4] # 0

\* components a body-frame velocity may hold
VelValues == {0 - MaxVel, 0, MaxVel}

\* the root link moves with any body-frame velocity
InitLinVel ==
    /\ InitGeneratorIdle
    /\ term_command = [i \in Envs |-> <<0, 0, 0>>]
    /\ root_link_lin_vel_b \in [Envs -> [1 .. 3 -> VelValues]]
    /\ obs_call = [func |-> "none"]

\* an observation term is computed: obs_call keeps its name and its result
Observe(func, value) ==
    /\ obs_call' = [func |-> func, value |-> value]
    /\ UNCHANGED <<event_command, time_elapsed, step_dt, physics_dt, last_call,
                   probe, ghost, twin, term_command, root_link_lin_vel_b>>

BaseLinVelLink == Observe("base_lin_vel_link", base_lin_vel_link(root_link_lin_vel_b))

BaseLinVelXLink == Observe("base_lin_vel_x_link", base_lin_vel_x_link(root_link_lin_vel_b))

BaseLinVelYLink == Observe("base_lin_vel_y_link", base_lin_vel_y_link(root_link_lin_vel_b))

BaseLinVelZLink == Observe("base_lin_vel_z_link", base_lin_vel_z_link(root_link_lin_vel_b))

NextLinVel == BaseLinVelLink \/ BaseLinVelXLink \/ BaseLinVelYLink \/ BaseLinVelZLink

SpecLinVel == InitLinVel /\ [][NextLinVel]_vars

\* C22: base_lin_vel_z_link returns for every environment the one-element row
\* holding the third component of root_link_lin_vel_b, so the x, y and z terms
\* side by side are the row base_lin_vel_link returns.
C22_ZLinkIsThirdComponent ==
    /\ obs_call.func = "base_lin_vel_z_link" =>
           \A i \in Envs : obs_call.value[i] = <<root_link_lin_vel_b[i][3]>>
    /\ \A i \in Envs :
           <<base_lin_vel_x_link(root_link_lin_vel_b)[i][1],
             base_lin_vel_y_link(root_link_lin_vel_b)[i][1],
             base_lin_vel_z_link(root_link_lin_vel_b)[i][1]>>
               = base_lin_vel_link(root_link_lin_vel_b)[i]

====
